---- MODULE Spec2Model ----
(***************************************************************************)
(* CompetiScope agent (src/main.py): the in-memory TTL cache, the insight  *)
(* generator with its JSON fallback, the orchestrator                      *)
(* get_comprehensive_analysis and the two entry points /analyze and        *)
(* /webhook/telex, as a state machine of cooperatively scheduled request   *)
(* tasks sharing the module-level cache dictionary.                        *)
(*                                                                         *)
(* Python strings on which the code works character by character (company *)
(* names, markets, focus areas, chat content) are sequences of one-letter  *)
(* strings. Fixed message texts are plain strings. An Optional value is    *)
(* the empty sequence (None) or a one-element sequence.                    *)
(***************************************************************************)
EXTENDS Integers, Sequences, FiniteSets, TLC

\* ------------------------------------------------------------------ bounds
\* Request tasks that may be in flight at once on the event loop.
NumTasks == 2
\* Requests the environment sends in one behaviour.
MaxCalls == 2
\* The same, in the behaviours that let three requests meet on one cache key.
RaceCalls == 3
\* Times the wall clock is observed to have advanced in one behaviour.
MaxTicks == 1

\* --------------------------------------------------------------- constants
CACHE_TTL == 3600

None == <<>>
Some(x) == <<x>>

\* --------------------------------------------------------- string helpers
\* str.isspace of one character, for str.strip() without arguments.
IsSpace(c) == c \in {" ", "\t", "\n"}

RECURSIVE lstrip(_)
lstrip(s) == IF s # <<>> /\ IsSpace(Head(s)) THEN lstrip(Tail(s)) ELSE s

RECURSIVE rstrip(_)
rstrip(s) == IF s # <<>> /\ IsSpace(s[Len(s)]) THEN rstrip(SubSeq(s, 1, Len(s) - 1)) ELSE s

strip(s) == rstrip(lstrip(s))

LowerOf(c) == CASE c = "A" -> "a" [] c = "B" -> "b" [] c = "C" -> "c" [] c = "R" -> "r" [] OTHER -> c

lower(s) == [i \in 1..Len(s) |-> LowerOf(s[i])]

startswith(s, p) == Len(s) >= Len(p) /\ SubSeq(s, 1, Len(p)) = p

\* Index of the first occurrence of character c in s, 0 when there is none.
find(s, c) == IF \E i \in 1..Len(s) : s[i] = c THEN CHOOSE i \in 1..Len(s) : s[i] = c /\ \A j \in 1..(i - 1) : s[j] # c ELSE 0

\* content.split(" ", 1): at most one split, at the first space.
split1(s) == IF find(s, " ") = 0 THEN <<s>> ELSE <<SubSeq(s, 1, find(s, " ") - 1), SubSeq(s, find(s, " ") + 1, Len(s))>>

\* sep.join(parts) for a one-character separator.
RECURSIVE join(_, _)
join(sep, parts) == IF parts = <<>> THEN <<>> ELSE IF Len(parts) = 1 THEN parts[1] ELSE parts[1] \o <<sep>> \o join(sep, Tail(parts))

\* How an f-string formats an Optional[str]: None prints as the word None.
format_optional(m) == IF m = None THEN <<"N", "o", "n", "e">> ELSE m[1]

\* `focus_areas or []`: None and the empty list both give the empty list.
or_empty(f) == IF f = None \/ f[1] = <<>> THEN <<>> ELSE f[1]

\* main.py:168
compute_cache_key(company, market, focus_areas) == company \o <<"_">> \o format_optional(market) \o <<"_">> \o join("-", or_empty(focus_areas))

\* ------------------------------------------------------------- exceptions
\* A raised exception: its class, HTTP status (0 when it is not an
\* HTTPException) and message.
HTTPException(status_code, detail) == [type |-> "HTTPException", status_code |-> status_code, detail |-> detail]

PyException(type, message) == [type |-> type, status_code |-> 0, detail |-> message]

\* str(e): starlette's HTTPException prints "<status>: <detail>", any other
\* exception prints its message.
str_exc(e) == IF e.type = "HTTPException" THEN ToString(e.status_code) \o ": " \o e.detail ELSE e.detail

\* The outcome of evaluating a Python expression: a value or a raised exception.
Return(v) == [value |-> <<v>>, exc |-> <<>>]

Raise(e) == [value |-> <<>>, exc |-> <<e>>]

Raised(o) == o.exc # <<>>

\* ------------------------------------------------------------ Python values
\* An untyped Python value as the model's payload carries it for the
\* confidence score: an int, or a str (a sequence of characters).
PyInt(n) == [int |-> <<n>>, str |-> <<>>]

PyStr(s) == [int |-> <<>>, str |-> <<s>>]

\* A text with one interpolated name (an f-string); plain texts have none.
Text(template, name) == [template |-> template, name |-> name]

Plain(s) == Text(s, <<>>)

IsDigit(c) == c \in {"0", "1", "2", "3", "4", "5", "6", "7", "8", "9"}

DigitVal(c) == CASE c = "0" -> 0 [] c = "1" -> 1 [] c = "2" -> 2 [] c = "3" -> 3 [] c = "4" -> 4 [] c = "5" -> 5 [] c = "6" -> 6 [] c = "7" -> 7 [] c = "8" -> 8 [] OTHER -> 9

RECURSIVE DecimalVal(_)
DecimalVal(s) == IF s = <<>> THEN 0 ELSE 10 * DecimalVal(SubSeq(s, 1, Len(s) - 1)) + DigitVal(s[Len(s)])

\* pydantic's validation of an `int` field: an int is kept, a str of decimal
\* digits is converted, any other str is a validation error.
validate_int(v) == IF v.int # <<>> THEN Return(v.int[1]) ELSE IF v.str[1] # <<>> /\ \A i \in 1..Len(v.str[1]) : IsDigit(v.str[1][i]) THEN Return(DecimalVal(v.str[1])) ELSE Raise(PyException("ValidationError", "1 validation error for CompetitorIntelligence confidence_score"))

\* dict.get(key, default) on a record used as a dict.
dict_get(d, key, default) == IF key \in DOMAIN d THEN d[key] ELSE default

\* main.py:45-55: the CompetitorIntelligence constructor; it validates the
\* keyword arguments and raises on a confidence_score that is no int.
CompetitorIntelligence(kw) == IF Raised(validate_int(kw.confidence_score)) THEN Raise(validate_int(kw.confidence_score).exc[1]) ELSE Return([model |-> "CompetitorIntelligence", fields |-> [company |-> kw.company, analysis_summary |-> kw.analysis_summary, strengths |-> kw.strengths, weaknesses |-> kw.weaknesses, opportunities |-> kw.opportunities, threats |-> kw.threats, market_position |-> kw.market_position, recommendations |-> kw.recommendations, confidence_score |-> validate_int(kw.confidence_score).value[1], data_sources |-> kw.data_sources]])

\* result.dict(): the fields as a plain dict of Python values.
to_dict(m) == [m.fields EXCEPT !.confidence_score = PyInt(@)]

\* ---------------------------------------------------------------- the clock
\* datetime.isoformat / datetime.fromisoformat: the text keeps the whole
\* instant, so parsing gives it back.
isoformat(t) == [iso |-> t]

fromisoformat(s) == s.iso

\* The validity test with an entry of age CACHE_TTL still served.
is_cache_valid_inclusive(cache_entry, clock) == IF DOMAIN cache_entry = {} \/ "timestamp" \notin DOMAIN cache_entry THEN FALSE ELSE clock - fromisoformat(cache_entry.timestamp) <= CACHE_TTL

\* main.py:160-165
is_cache_valid(cache_entry, clock) == IF DOMAIN cache_entry = {} \/ "timestamp" \notin DOMAIN cache_entry THEN FALSE ELSE clock - fromisoformat(cache_entry.timestamp) < CACHE_TTL

\* --------------------------------------------------------------- collectors
\* main.py:64-82
get_company_basic_info(company_name) == [name |-> company_name, industry |-> "Technology", founded |-> "Unknown", headquarters |-> "Unknown", employees |-> "Unknown", description |-> Text("Information about {}", company_name), source |-> "public_data"]

\* main.py:84-98
get_recent_news(company_name, clock) == <<[title |-> Text("Recent developments at {}", company_name), summary |-> Text("Latest news and updates about {}", company_name), sentiment |-> "neutral", date |-> isoformat(clock), source |-> "news_simulation"]>>

\* main.py:100-113
get_market_data(company_name) == [market_cap |-> "Unknown", stock_price |-> "Unknown", revenue |-> "Unknown", market_share |-> "Unknown", growth_rate |-> "Unknown", source |-> "market_simulation"]

\* -------------------------------------------------------- insight generator
\* What the language model call gives back: it raises (endpoint unreachable,
\* blocked response), or it returns a text that is no JSON, a JSON array, or
\* a JSON object `obj`.
ModelResponse(outcome, obj) == [outcome |-> outcome, obj |-> obj]

\* json.loads(response.text.strip())
json_loads(response) == IF response.outcome = "not_json" THEN Raise(PyException("JSONDecodeError", "Expecting value")) ELSE Return([isdict |-> response.outcome = "json_object", obj |-> response.obj])

\* main.py:146-155: the canned insight set.
FallbackInsights(company_data) == [analysis_summary |-> Text("Basic analysis of {} based on available data.", company_data.basic_info.name), strengths |-> <<"Market presence", "Brand recognition", "Innovation capability">>, weaknesses |-> <<"Limited data available", "Market competition", "Economic sensitivity">>, opportunities |-> <<"Digital transformation", "Market expansion", "Strategic partnerships">>, threats |-> <<"Economic uncertainty", "Competitive pressure", "Regulatory changes">>, market_position |-> Plain("Competitive position requires further analysis with more comprehensive data."), recommendations |-> <<"Conduct deeper market research", "Monitor competitor activities", "Focus on differentiation">>, confidence_score |-> PyInt(60)]

\* The generator with no fallback: a text that is no JSON is an error too.
analyze_with_ai_strict(company_data, focus_areas, response) == IF response.outcome = "raises" \/ Raised(json_loads(response)) THEN Raise(HTTPException(500, "AI analysis failed")) ELSE Return(json_loads(response).value[1])

\* The generator with the fallback for every failure of the model call.
analyze_with_ai_lenient(company_data, focus_areas, response) == IF response.outcome = "raises" \/ Raised(json_loads(response)) THEN Return([isdict |-> TRUE, obj |-> <<FallbackInsights(company_data)>>]) ELSE Return(json_loads(response).value[1])

\* main.py:115-158
analyze_with_ai(company_data, focus_areas, response) == IF response.outcome = "raises" THEN Raise(HTTPException(500, "AI analysis failed")) ELSE IF Raised(json_loads(response)) THEN Return([isdict |-> TRUE, obj |-> <<FallbackInsights(company_data)>>]) ELSE Return(json_loads(response).value[1])

\* ------------------------------------------------------------ orchestrator
\* main.py:184-193
comprehensive_data(company, market, focus_areas, clock) ==
    [basic_info |-> get_company_basic_info(company),
     recent_news |-> get_recent_news(company, clock),
     market_data |-> get_market_data(company),
     analysis_request |-> [company |-> company, market |-> market, focus_areas |-> focus_areas]]

\* main.py:197-208: the keyword arguments of the result, each generator
\* field read with .get and its default.
result_kwargs(company, ai_insights) ==
    [company |-> company,
     analysis_summary |-> dict_get(ai_insights, "analysis_summary", Plain("")),
     strengths |-> dict_get(ai_insights, "strengths", <<>>),
     weaknesses |-> dict_get(ai_insights, "weaknesses", <<>>),
     opportunities |-> dict_get(ai_insights, "opportunities", <<>>),
     threats |-> dict_get(ai_insights, "threats", <<>>),
     market_position |-> dict_get(ai_insights, "market_position", Plain("")),
     recommendations |-> dict_get(ai_insights, "recommendations", <<>>),
     confidence_score |-> dict_get(ai_insights, "confidence_score", PyInt(70)),
     data_sources |-> <<"company_data", "news_analysis", "market_data", "ai_analysis">>]

\* main.py:217-219: whatever is raised inside the try block is logged and
\* raised again as a 500 carrying the text of the original.
wrap_analysis_error(e) == HTTPException(500, "Analysis failed: " \o str_exc(e))

\* main.py:195-208: the outcome of the miss path from the collected data on:
\* the result, or the wrapped exception.
generate_result(company, data, focus_areas, response) ==
    LET ai == analyze_with_ai(data, focus_areas, response) IN
    IF Raised(ai) THEN Raise(wrap_analysis_error(ai.exc[1]))
    ELSE IF ~ai.value[1].isdict
         THEN Raise(wrap_analysis_error(PyException("AttributeError", "'list' object has no attribute 'get'")))
    ELSE LET built == CompetitorIntelligence(result_kwargs(company, ai.value[1].obj[1])) IN
         IF Raised(built) THEN Raise(wrap_analysis_error(built.exc[1])) ELSE built

\* The store that keeps an entry already under the key (first writer wins).
cache_store_if_absent(c, cache_key, outcome, clock) ==
    IF Raised(outcome) \/ cache_key \in DOMAIN c THEN c
    ELSE [k \in DOMAIN c \cup {cache_key} |->
            IF k = cache_key
            THEN [data |-> to_dict(outcome.value[1]), timestamp |-> isoformat(clock)]
            ELSE c[k]]

\* main.py:210-213: the cache after the miss path ended with `outcome`.
cache_store(c, cache_key, outcome, clock) ==
    IF Raised(outcome) THEN c
    ELSE [k \in DOMAIN c \cup {cache_key} |->
            IF k = cache_key
            THEN [data |-> to_dict(outcome.value[1]), timestamp |-> isoformat(clock)]
            ELSE c[k]]

\* The cache check with the validity test inverted.
cache_hit_inverted(c, cache_key, clock) == cache_key \in DOMAIN c /\ ~is_cache_valid(c[cache_key], clock)

\* main.py:169: the cache check.
cache_hit(c, cache_key, clock) == cache_key \in DOMAIN c /\ is_cache_valid(c[cache_key], clock)

\* main.py:171: the result served from the cache.
cached_result(c, cache_key) == CompetitorIntelligence(c[cache_key].data)

\* ------------------------------------------------------------ entry points
JSONResponse(status_code, body) == [status_code |-> status_code, body |-> body]

\* The test of the company name without the strip.
company_missing_unstripped(company) == company = <<>>

\* main.py:239: `not request.company.strip()`
company_missing(company) == strip(company) = <<>>

\* main.py:239-240
validation_error == JSONResponse(400, [detail |-> "Company name is required"])

\* main.py:249-254: what /analyze answers once the orchestrator ended.
analyze_competitor_reply(outcome) ==
    IF Raised(outcome) THEN JSONResponse(500, [detail |-> "Analysis failed"])
    ELSE JSONResponse(200, outcome.value[1].fields)

\* list[:n]
take(list, n) == SubSeq(list, 1, IF Len(list) < n THEN Len(list) ELSE n)

\* main.py:275-293: the chat rendering of an analysis.
response_text(analysis) ==
    [format |-> "CompetiScope Analysis",
     values |-> <<analysis.company, analysis.analysis_summary, take(analysis.strengths, 3),
                  take(analysis.weaknesses, 3), take(analysis.opportunities, 3),
                  take(analysis.recommendations, 2), analysis.confidence_score>>]

\* main.py:295-306: what the webhook answers once the orchestrator ended.
telex_webhook_reply(outcome, company_name, channel_id, user_id) ==
    IF Raised(outcome)
    THEN JSONResponse(200, [response |-> [format |-> "Sorry, I couldn't analyze {}. Please try again with a different company name.", values |-> <<company_name>>],
                            channel_id |-> channel_id,
                            error |-> str_exc(outcome.exc[1])])
    ELSE JSONResponse(200, [response |-> response_text(outcome.value[1].fields),
                            channel_id |-> channel_id,
                            user_id |-> user_id])

\* main.py:307-311
specify_company_reply(channel_id) == JSONResponse(200, [response |-> [format |-> "Please specify a company name to analyze. Example: 'analyze Apple' or 'research Tesla'", values |-> <<>>], channel_id |-> channel_id])

\* main.py:312-316
greeting_reply(channel_id) == JSONResponse(200, [response |-> [format |-> "Hi! I'm CompetiScope. I can analyze competitors for you. Try: 'analyze [company name]'", values |-> <<>>], channel_id |-> channel_id])

\* main.py:318-323
webhook_error_reply(e) == JSONResponse(200, [response |-> [format |-> "Sorry, I encountered an error. Please try again.", values |-> <<>>], error |-> str_exc(e)])

\* main.py:267: content.lower().startswith(("analyze", "check", "research"))
is_command(content) ==
    \/ startswith(lower(content), <<"a", "n", "a", "l", "y", "z", "e">>)
    \/ startswith(lower(content), <<"c", "h", "e", "c", "k">>)
    \/ startswith(lower(content), <<"r", "e", "s", "e", "a", "r", "c", "h">>)

\* ------------------------------------------------------------ the requests
AnalyzeRequest(company, market, focus_areas) ==
    [endpoint |-> "analyze", company |-> company, market |-> market, focus_areas |-> focus_areas,
     valid_json |-> TRUE, content |-> <<>>, channel_id |-> "", user_id |-> ""]

WebhookRequest(valid_json, content) ==
    [endpoint |-> "webhook", company |-> <<>>, market |-> None, focus_areas |-> None,
     valid_json |-> valid_json, content |-> content, channel_id |-> "channel-1", user_id |-> "user-1"]

\* The /analyze bodies the environment sends: two requests whose companies
\* differ ("A_B" in market "C", "A" in market "B_C"), requests that differ in
\* the order of their focus areas only, a blank and an empty company.
AnalyzeRequests ==
    {AnalyzeRequest(<<"A", "_", "B">>, Some(<<"C">>), None),
     AnalyzeRequest(<<"A">>, Some(<<"B", "_", "C">>), None),
     AnalyzeRequest(<<"A">>, Some(<<"C">>), Some(<< <<"x">>, <<"y">> >>)),
     AnalyzeRequest(<<"A">>, Some(<<"C">>), Some(<< <<"y">>, <<"x">> >>)),
     AnalyzeRequest(<<"A">>, Some(<<"C">>), Some(<< <<"x">>, <<"x", "-", "x">> >>)),
     AnalyzeRequest(<<"A">>, Some(<<"C">>), Some(<< <<"x", "-", "x">>, <<"x">> >>)),
     AnalyzeRequest(<<" ">>, None, None),
     AnalyzeRequest(<<>>, Some(<<"C">>), None)}

\* The chat messages: "analyze A", "Check  A", "analyze", "hello", and a body
\* that is no JSON.
WebhookRequests ==
    {WebhookRequest(TRUE, <<"a", "n", "a", "l", "y", "z", "e", " ", "A">>),
     WebhookRequest(TRUE, <<"C", "h", "e", "c", "k", " ", " ", "A">>),
     WebhookRequest(TRUE, <<"a", "n", "a", "l", "y", "z", "e", " ">>),
     WebhookRequest(TRUE, <<"h", "e", "l", "l", "o">>),
     WebhookRequest(FALSE, <<>>)}

\* A JSON object the model may answer with, by its confidence_score.
InsightObject(confidence_score) ==
    [analysis_summary |-> Plain("summary"), strengths |-> <<"s1", "s2", "s3", "s4">>,
     weaknesses |-> <<"w1">>, opportunities |-> <<"o1">>, threats |-> <<"t1">>,
     market_position |-> Plain("position"), recommendations |-> <<"r1", "r2", "r3">>,
     confidence_score |-> confidence_score]

\* What the language model call may do.
ModelResponses ==
    {ModelResponse("raises", <<>>),
     ModelResponse("not_json", <<>>),
     ModelResponse("json_array", <<>>),
     ModelResponse("json_object", <<InsightObject(PyInt(85))>>),
     ModelResponse("json_object", <<InsightObject(PyInt(150))>>),
     ModelResponse("json_object", <<InsightObject(PyStr(<<"1", "0", "0">>))>>),
     ModelResponse("json_object", <<InsightObject(PyStr(<<"h", "i", "g", "h">>))>>),
     ModelResponse("json_object", <<[analysis_summary |-> Plain("summary")]>>)}

\* How far the wall clock is seen to advance between two steps.
ClockSteps == {CACHE_TTL - 1, CACHE_TTL}

\* ---------------------------------------------------------------- the state
VARIABLES
    cache,   \* main.py:37: cache key -> [data, timestamp]
    now,     \* datetime.now(), in seconds
    task,    \* the request tasks of the event loop
    calls,   \* requests received so far
    ticks    \* clock advances so far

vars == <<cache, now, task, calls, ticks>>

Tasks == 1..NumTasks

NoTrail == [cache_reads |-> 0, cache_writes |-> 0, collectors |-> 0, generator |-> 0]

\* A task slot with no request. Beside the handler's locals (request,
\* company, market, focus_areas, cache_key, ai_response, outcome, response) a
\* task records its history: what it invoked (trail), the age of the entry
\* it found under its key when it checked the cache (found_age, None when
\* there was no entry), and when it wrote the cache (wrote_at).
IdleTask ==
    [pc |-> "idle", request |-> <<>>, company |-> <<>>, market |-> None,
     focus_areas |-> None, cache_key |-> <<>>, ai_response |-> <<>>, outcome |-> <<>>,
     response |-> <<>>, trail |-> NoTrail, found_age |-> None, wrote_at |-> 0]

Init ==
    /\ cache = <<>>
    /\ now = 0
    /\ task = [t \in Tasks |-> IdleTask]
    /\ calls = 0
    /\ ticks = 0

NewTask(req) == [IdleTask EXCEPT !.request = <<req>>]

\* A request is handled by a new task; the free slots are interchangeable,
\* so it takes the first.
accepts(t) == task[t].pc = "idle" /\ \A u \in Tasks : u < t => task[u].pc # "idle"

\* The handler's answer for the orchestrator's outcome, by entry point.
reply_for(tk, outcome) ==
    IF tk.request[1].endpoint = "analyze"
    THEN analyze_competitor_reply(outcome)
    ELSE telex_webhook_reply(outcome, tk.company, tk.request[1].channel_id, tk.request[1].user_id)

\* A task that answered without calling the orchestrator.
Answered(tk, response) == [tk EXCEPT !.pc = "done", !.response = <<response>>]

\* main.py:167-182: the call of get_comprehensive_analysis up to its first
\* suspension: on a hit it returns at once, on a miss it dispatches the
\* collectors and awaits them.
enter_analysis(tk, company, market, focus_areas) ==
    LET key == compute_cache_key(company, market, focus_areas)
        called == [tk EXCEPT !.company = company, !.market = market, !.focus_areas = focus_areas,
                             !.cache_key = key, !.trail.cache_reads = 1,
                             !.found_age = IF key \in DOMAIN cache
                                           THEN Some(now - fromisoformat(cache[key].timestamp))
                                           ELSE None]
    IN  IF cache_hit(cache, key, now)
        THEN [called EXCEPT !.pc = "done",
                            !.outcome = <<cached_result(cache, key)>>,
                            !.response = <<reply_for(called, cached_result(cache, key))>>]
        ELSE [called EXCEPT !.pc = "gathering"]

\* main.py:235-254: POST /analyze, up to the orchestrator's first suspension.
analyze_competitor(t, req, limit) ==
    /\ accepts(t)
    /\ calls < limit
    /\ calls' = calls + 1
    /\ task' = [task EXCEPT ![t] =
                  IF company_missing(req.company)
                  THEN Answered(NewTask(req), validation_error)
                  ELSE enter_analysis(NewTask(req), req.company, req.market, req.focus_areas)]
    /\ UNCHANGED <<cache, now, ticks>>

\* main.py:256-323: POST /webhook/telex, up to the orchestrator's first
\* suspension.
telex_webhook(t, req, limit) ==
    /\ accepts(t)
    /\ calls < limit
    /\ calls' = calls + 1
    /\ task' = [task EXCEPT ![t] =
                  IF ~req.valid_json
                  THEN Answered(NewTask(req), webhook_error_reply(PyException("JSONDecodeError", "Expecting value")))
                  ELSE IF ~is_command(strip(req.content))
                  THEN Answered(NewTask(req), greeting_reply(req.channel_id))
                  ELSE IF Len(split1(strip(req.content))) <= 1
                  THEN Answered(NewTask(req), specify_company_reply(req.channel_id))
                  ELSE enter_analysis(NewTask(req), strip(split1(strip(req.content))[2]), None, None)]
    /\ UNCHANGED <<cache, now, ticks>>

\* main.py:176-219 and the handler's return: the task resumes once the three
\* collectors have run; their results are merged, the generator is called,
\* the result is built and stored, and the request is answered.
complete_analysis(t, response) ==
    LET tk == task[t]
        data == comprehensive_data(tk.company, tk.market, tk.focus_areas, now)
        outcome == generate_result(tk.company, data, tk.focus_areas, response)
    IN  /\ tk.pc = "gathering"
        /\ cache' = cache_store(cache, tk.cache_key, outcome, now)
        /\ task' = [task EXCEPT ![t].pc = "done",
                                ![t].ai_response = <<response>>,
                                ![t].outcome = <<outcome>>,
                                ![t].response = <<reply_for(tk, outcome)>>,
                                ![t].trail.collectors = @ + 3,
                                ![t].trail.generator = @ + 1,
                                ![t].trail.cache_writes = IF cache' = cache /\ Raised(outcome) THEN @ ELSE @ + 1,
                                ![t].wrote_at = IF Raised(outcome) THEN @ ELSE now]
        /\ UNCHANGED <<now, calls, ticks>>

\* The response has been sent; the task is gone.
respond(t) ==
    /\ task[t].pc = "done"
    /\ task' = [task EXCEPT ![t] = IdleTask]
    /\ UNCHANGED <<cache, now, calls, ticks>>

\* The wall clock advances.
tick(d) ==
    /\ ticks < MaxTicks
    /\ ticks' = ticks + 1
    /\ now' = now + d
    /\ UNCHANGED <<cache, task, calls>>

\* The steps of the service in an environment that sends at most `limit`
\* requests, drawn from the /analyze bodies `requests` and the chat messages
\* `messages`, and whose language model answers with one of `responses`.
NextIn(limit, requests, messages, responses) ==
    \/ \E t \in Tasks, req \in requests : analyze_competitor(t, req, limit)
    \/ \E t \in Tasks, req \in messages : telex_webhook(t, req, limit)
    \/ \E t \in Tasks, response \in responses : complete_analysis(t, response)
    \/ \E t \in Tasks : respond(t)
    \/ \E d \in ClockSteps : tick(d)

\* Every request and every answer of the model.
Next == NextIn(MaxCalls, AnalyzeRequests, WebhookRequests, ModelResponses)

Spec == Init /\ [][Next]_vars

\* ---------------------------------------------------- smaller environments
\* One /analyze body, one chat command and one greeting.
OneRequest == {AnalyzeRequest(<<"A", "_", "B">>, Some(<<"C">>), None)}

OneCommand == {WebhookRequest(TRUE, <<"a", "n", "a", "l", "y", "z", "e", " ", "A">>)}

OneGreeting == {WebhookRequest(TRUE, <<"h", "e", "l", "l", "o">>)}

\* Two different answers of the model that give a result, and a failure.
RaceResponses ==
    {ModelResponse("json_object", <<InsightObject(PyInt(85))>>),
     ModelResponse("json_object", <<[analysis_summary |-> Plain("summary")]>>),
     ModelResponse("raises", <<>>)}

\* Every answer of the model, for one /analyze body.
SpecGenerator == Init /\ [][NextIn(MaxCalls, OneRequest, OneGreeting, ModelResponses)]_vars

\* Every /analyze body, for one answer of the model.
SpecValidation == Init /\ [][NextIn(MaxCalls, AnalyzeRequests, OneGreeting, {ModelResponse("json_object", <<InsightObject(PyInt(85))>>)})]_vars

\* Three requests on two cache keys, so that two may overlap on one key while
\* the other key holds an entry, and a third may follow them.
SpecRace == Init /\ [][NextIn(RaceCalls, OneRequest, OneCommand, RaceResponses)]_vars

\* ------------------------------------------------------- reading the state
\* The task called get_comprehensive_analysis.
Called(tk) == tk.trail.cache_reads = 1

\* The call was served from the cache: it returned at the check.
Hit(tk) == tk.pc = "done" /\ Called(tk) /\ tk.ai_response = <<>>

\* The call took the miss path to its end.
Generated(tk) == tk.pc = "done" /\ tk.ai_response # <<>>

\* The call returned a result.
Succeeded(tk) == tk.pc = "done" /\ tk.outcome # <<>> /\ tk.outcome[1].value # <<>>

\* The call ended in an exception.
Failed(tk) == tk.pc = "done" /\ tk.outcome # <<>> /\ tk.outcome[1].exc # <<>>

Result(tk) == tk.outcome[1].value[1].fields

Fields == {"company", "analysis_summary", "strengths", "weaknesses", "opportunities", "threats", "market_position", "recommendations", "data_sources"}

\* The cache entry holds exactly this result, stored at time `at`.
Holds(entry, fields, at) ==
    /\ \A f \in Fields : entry.data[f] = fields[f]
    /\ entry.data.confidence_score = [int |-> <<fields.confidence_score>>, str |-> <<>>]
    /\ entry.timestamp = [iso |-> at]

SameArguments(a, b) == a.company = b.company /\ a.market = b.market /\ a.focus_areas = b.focus_areas

\* Task t receives a request in this step.
Begins(t) == task[t].pc = "idle" /\ task'[t].pc # "idle"

\* Task t resumes from the collectors and ends in this step.
Completes(t) == task[t].pc = "gathering" /\ task'[t].pc = "done"

Blank(str) == \A i \in 1..Len(str) : str[i] \in {" ", "\t", "\n"}

\* ------------------------------------------------------------------ claims
\* The second of two calls with identical arguments: task t2 receives its
\* request in this step, after task t1 stored a result for the same arguments
\* less than CACHE_TTL seconds ago.
SecondCall(t1, t2) ==
    /\ t1 # t2
    /\ Generated(task[t1]) /\ Succeeded(task[t1])
    /\ Begins(t2) /\ Called(task'[t2])
    /\ SameArguments(task[t1], task'[t2])
    /\ now - task[t1].wrote_at < CACHE_TTL

\* The second call is a pure cache hit that returns what the first returned.
ServedAsFirst(t1, t2) ==
    /\ Hit(task'[t2])
    /\ task'[t2].outcome = task[t1].outcome
    /\ task'[t2].trail.collectors = 0 /\ task'[t2].trail.generator = 0
    /\ task[t1].trail.collectors = 3 /\ task[t1].trail.generator = 1
    /\ cache' = cache

\* C1, as stated: a call that starts after a successful call with the same
\* arguments, within CACHE_TTL of that call's entry, returns a result equal to
\* the first call's, with one generation across the two calls and no change
\* of the cache.
C1_SecondCallEqualsFirst ==
    [][\A t1, t2 \in Tasks : SecondCall(t1, t2) => ServedAsFirst(t1, t2)]_vars

\* C1, amended: the same, provided the entry the first call stored is still
\* the entry under the key; and whatever entry is under the key, a cache hit
\* returns that entry's data, invokes neither collectors nor generator and
\* leaves the cache as it was.
C1_SecondCallServedFromEntry ==
    [][/\ \A t1, t2 \in Tasks :
            (SecondCall(t1, t2) /\ Holds(cache[task[t1].cache_key], Result(task[t1]), task[t1].wrote_at))
                => ServedAsFirst(t1, t2)
       /\ \A t \in Tasks :
            (Begins(t) /\ Hit(task'[t]))
                => /\ Succeeded(task'[t])
                   /\ Holds(cache[task'[t].cache_key], Result(task'[t]), fromisoformat(cache[task'[t].cache_key].timestamp))
                   /\ task'[t].trail.collectors = 0 /\ task'[t].trail.generator = 0
                   /\ cache' = cache]_vars

\* C1, witness: only two requests were received, with the same arguments; the
\* first generated and stored a result, the second was served the same result
\* from the cache.
C1_Witness ==
    \E t1, t2 \in Tasks :
        /\ calls = 2
        /\ Generated(task[t1]) /\ Succeeded(task[t1])
        /\ Hit(task[t2]) /\ Succeeded(task[t2])
        /\ SameArguments(task[t1], task[t2])
        /\ task[t2].outcome = task[t1].outcome
        /\ task[t2].found_age # None /\ task[t2].found_age[1] < CACHE_TTL

\* C2: an entry is served iff it is younger than CACHE_TTL, strictly: a call
\* that finds no entry, or an entry of age CACHE_TTL or more, awaits the
\* collectors; when it resumes it has invoked the three collectors and the
\* generator, and when it returns a result the entry under its key holds that
\* result with the time of the write.
C2_ValidIffYoungerThanTTL ==
    [][\A t \in Tasks :
        /\ (Begins(t) /\ Called(task'[t]))
              => LET k == task'[t].cache_key
                     young == k \in DOMAIN cache /\ now - cache[k].timestamp.iso < CACHE_TTL
                 IN  /\ young => Hit(task'[t])
                     /\ ~young => task'[t].pc = "gathering"
        /\ Completes(t)
              => /\ task'[t].trail.collectors = 3 /\ task'[t].trail.generator = 1
                 /\ Succeeded(task'[t]) => Holds(cache'[task[t].cache_key], Result(task'[t]), now)]_vars

\* C2, witness: a call found an entry of age exactly CACHE_TTL, generated
\* again, and the entry under its key now carries the later time.
C2_Witness ==
    \E t \in Tasks :
        /\ Generated(task[t]) /\ Succeeded(task[t])
        /\ task[t].found_age = Some(CACHE_TTL)
        /\ task[t].wrote_at >= CACHE_TTL
        /\ Holds(cache[task[t].cache_key], Result(task[t]), task[t].wrote_at)

\* C3, as stated: every result returned and every result stored has its
\* confidence_score in 0..100.
C3_ConfidenceInRange ==
    /\ \A t \in Tasks : Succeeded(task[t]) => Result(task[t]).confidence_score \in 0..100
    /\ \A k \in DOMAIN cache : cache[k].data.confidence_score.int[1] \in 0..100

\* C4: when the model's text is no JSON, the call on the miss path returns
\* the canned result with confidence_score 60, the requested company and the
\* four source tags, and /analyze answers 200 with it.
C4_FallbackOnUnparseable ==
    \A t \in Tasks :
        (Generated(task[t]) /\ task[t].ai_response[1].outcome = "not_json")
            => /\ Succeeded(task[t])
               /\ Result(task[t]).confidence_score = 60
               /\ Result(task[t]).strengths = <<"Market presence", "Brand recognition", "Innovation capability">>
               /\ Result(task[t]).weaknesses = <<"Limited data available", "Market competition", "Economic sensitivity">>
               /\ Result(task[t]).opportunities = <<"Digital transformation", "Market expansion", "Strategic partnerships">>
               /\ Result(task[t]).threats = <<"Economic uncertainty", "Competitive pressure", "Regulatory changes">>
               /\ Result(task[t]).market_position = [template |-> "Competitive position requires further analysis with more comprehensive data.", name |-> <<>>]
               /\ Result(task[t]).recommendations = <<"Conduct deeper market research", "Monitor competitor activities", "Focus on differentiation">>
               /\ Result(task[t]).data_sources = <<"company_data", "news_analysis", "market_data", "ai_analysis">>
               /\ task[t].request[1].endpoint = "analyze"
                    => /\ Result(task[t]).company = task[t].request[1].company
                       /\ task[t].response = <<[status_code |-> 200, body |-> Result(task[t])]>>

\* C4, witness: an /analyze request whose model answer was no JSON has been
\* answered.
C4_Witness ==
    \E t \in Tasks :
        /\ Generated(task[t]) /\ task[t].ai_response[1].outcome = "not_json"
        /\ task[t].request[1].endpoint = "analyze"
        /\ task[t].response # <<>> /\ task[t].response[1].status_code = 200

\* C5: an /analyze request whose company is empty or whitespace is answered
\* 400 "Company name is required" in the step that receives it, without a
\* cache read or write, a collector call or a generator call, and the cache
\* is unchanged; a request that fails later is answered 500, not 400.
C5_BlankCompanyRejected ==
    [][\A t \in Tasks :
        /\ (Begins(t) /\ task'[t].request[1].endpoint = "analyze" /\ Blank(task'[t].request[1].company))
              => /\ task'[t].pc = "done"
                 /\ task'[t].response = <<[status_code |-> 400, body |-> [detail |-> "Company name is required"]]>>
                 /\ task'[t].trail = [cache_reads |-> 0, cache_writes |-> 0, collectors |-> 0, generator |-> 0]
                 /\ task'[t].outcome = <<>>
                 /\ cache' = cache
        /\ (Begins(t) /\ task'[t].request[1].endpoint = "analyze" /\ ~Blank(task'[t].request[1].company))
              => Called(task'[t])
        /\ (task'[t].request # <<>> /\ task'[t].request[1].endpoint = "analyze" /\ Failed(task'[t]))
              => task'[t].response[1].status_code = 500]_vars

\* C5, witness: a request with a whitespace company has been answered 400
\* while the cache holds an entry.
C5_Witness ==
    \E t \in Tasks :
        /\ task[t].pc = "done"
        /\ task[t].request[1].endpoint = "analyze"
        /\ task[t].request[1].company = <<" ">>
        /\ task[t].response[1].status_code = 400
        /\ DOMAIN cache # {}

\* C6: when the model call raises, the call of get_comprehensive_analysis
\* ends in a 500 exception, with no result, after one generator call, without
\* a cache write: the step leaves the cache as it was, and /analyze answers
\* 500 "Analysis failed".
C6_GeneratorFailureLeavesCache ==
    [][\A t \in Tasks :
        (Completes(t) /\ task'[t].ai_response[1].outcome = "raises")
            => /\ cache' = cache
               /\ Failed(task'[t])
               /\ task'[t].outcome[1].exc[1].type = "HTTPException"
               /\ task'[t].outcome[1].exc[1].status_code = 500
               /\ task'[t].trail.generator = 1
               /\ task'[t].trail.cache_writes = 0
               /\ task'[t].request[1].endpoint = "analyze"
                    => task'[t].response = <<[status_code |-> 500, body |-> [detail |-> "Analysis failed"]]>>]_vars

\* C6, witness: an /analyze request failed on the model call while an expired
\* entry was under its key, and that entry is still there.
C6_Witness ==
    \E t \in Tasks :
        /\ Generated(task[t]) /\ task[t].ai_response[1].outcome = "raises"
        /\ task[t].response[1].status_code = 500
        /\ task[t].found_age = Some(CACHE_TTL)
        /\ task[t].cache_key \in DOMAIN cache
        /\ cache[task[t].cache_key].timestamp = [iso |-> 0]

\* The chat message is an analysis command: a command word and a company.
AnalysisCommand(tk) == tk.request # <<>> /\ tk.request[1].endpoint = "webhook" /\ Called(tk)

\* C7, as stated: a chat request whose analysis failed is answered normally
\* with the apology naming the company, and the answer carries no error text.
C7_WebhookNeverEchoesError ==
    \A t \in Tasks :
        (AnalysisCommand(task[t]) /\ Failed(task[t]))
            => /\ task[t].response # <<>>
               /\ task[t].response[1].status_code = 200
               /\ task[t].response[1].body.response = [format |-> "Sorry, I couldn't analyze {}. Please try again with a different company name.", values |-> <<task[t].company>>]
               /\ "error" \notin DOMAIN task[t].response[1].body

\* b is a rearrangement of a.
Permutation(a, b) ==
    /\ Len(a) = Len(b)
    /\ \E p \in [1..Len(a) -> 1..Len(a)] :
          /\ \A i, j \in 1..Len(a) : i # j => p[i] # p[j]
          /\ \A i \in 1..Len(a) : b[i] = a[p[i]]

\* C8, as stated: two calls with the same arguments have the same key, and
\* two calls that differ only in the order of their focus areas have
\* different keys, so the second is not served the first's entry.
C8_ReorderedFocusAreasMiss ==
    \A t1, t2 \in Tasks :
        (Called(task[t1]) /\ Called(task[t2]) /\ task[t1].company = task[t2].company /\ task[t1].market = task[t2].market)
            => /\ task[t1].focus_areas = task[t2].focus_areas => task[t1].cache_key = task[t2].cache_key
               /\ ( /\ task[t1].focus_areas # None /\ task[t2].focus_areas # None
                    /\ task[t1].focus_areas # task[t2].focus_areas
                    /\ Permutation(task[t1].focus_areas[1], task[t2].focus_areas[1]) )
                        => task[t1].cache_key # task[t2].cache_key

\* C9: a call that resumes from the collectors and returns a result stores
\* it under its key with the time of the write, whatever is there, and leaves
\* every other key's entry as it was; the result is its own: it names its
\* company and carries the confidence_score of the model answer it received.
C9_LastWriterWins ==
    [][\A t \in Tasks :
        (Completes(t) /\ Succeeded(task'[t]))
            => LET k == task[t].cache_key
                   answer == task'[t].ai_response[1]
               IN  /\ DOMAIN cache' = DOMAIN cache \cup {k}
                   /\ Holds(cache'[k], Result(task'[t]), now)
                   /\ \A other \in DOMAIN cache \ {k} : cache'[other] = cache[other]
                   /\ task'[t].trail.collectors = 3 /\ task'[t].trail.generator = 1
                   /\ Result(task'[t]).company = task[t].company
                   /\ (answer.outcome = "json_object" /\ "confidence_score" \in DOMAIN answer.obj[1] /\ answer.obj[1].confidence_score.int # <<>>)
                        => Result(task'[t]).confidence_score = answer.obj[1].confidence_score.int[1]]_vars

\* C9, witness: two calls for one key both found no entry, both generated and
\* returned different results; the cache holds one of them under the key and
\* another key's entry beside it.
C9_Witness ==
    \E t1, t2 \in Tasks :
        /\ t1 # t2
        /\ Generated(task[t1]) /\ Succeeded(task[t1]) /\ task[t1].found_age = None
        /\ Generated(task[t2]) /\ Succeeded(task[t2]) /\ task[t2].found_age = None
        /\ task[t1].cache_key = task[t2].cache_key
        /\ Result(task[t1]) # Result(task[t2])
        /\ Holds(cache[task[t2].cache_key], Result(task[t2]), task[t2].wrote_at)
        /\ \E other \in DOMAIN cache : other # task[t2].cache_key

\* C10, as stated: every result returned names the company the call was made
\* for, on a hit as on a miss.
C10_ResultNamesRequestedCompany ==
    \A t \in Tasks : Succeeded(task[t]) => Result(task[t]).company = task[t].company

====
